---- MODULE Spec2Model ----
(***************************************************************************)
(* A model of starfield/app.py: the Star helper, the Starfield widget's    *)
(* vertex and index arrays, and the per-frame motion algorithm             *)
(* Starfield.update_glsl driven by the Clock.                              *)
(*                                                                         *)
(* Units.  Python floats are modelled by exact integers:                   *)
(*   - screen lengths (distance, x, y, center) in pixels;                  *)
(*   - size / vScale in thousandths (1 is 1000, 0.05 is 50, 0.25 is 250);  *)
(*   - angle in quarter turns (pi/2), so that cos and sin are exact;       *)
(*   - nap (the elapsed time) in seconds;                                  *)
(*   - max_distance in tenths of a pixel (1.1 * m is 11 * m tenths);       *)
(*   - a value of random() in quarters where it feeds the angle and in     *)
(*     tenths where it feeds the distance and the size.                    *)
(* Python's 0-based list index j is position j + 1 of a TLA+ sequence.     *)
(***************************************************************************)
EXTENDS Integers, Sequences, FiniteSets, TLC

\* Number of stars of the field.
NSTARS == 2

\* Values of random() that feed the angle, in quarters: 2*pi*(r/4).
AngleDraws == {1, 2}
\* Values of random() that feed the distance, in tenths: 90*(r/10) + 10.
\* 0.5 gives 55, which is exactly max_distance at the center (50, 50).
DistanceDraws == {5, 9}
\* Values of random() that feed the size, in tenths: 0.05*(r/10) + 0.05.
SizeDraws == {5}
\* Elapsed times the Clock passes to update_glsl, in seconds.
Naps == {0, 1}
\* Centers of the widget (it may be resized between frames).
Centers == {<<50, 50>>, <<50, 200>>}

VARIABLES
    stars,          \* Starfield.stars: the Star objects
    vertices,       \* Starfield.vertices: the flat vertex array
    indices,        \* Starfield.indices
    canvas,         \* the instructions held by Starfield.canvas
    pc,             \* position of update_glsl: idle, grow, test, draw
    nap,            \* update_glsl's argument
    x0,             \* update_glsl's local x0
    y0,             \* update_glsl's local y0
    max_distance,   \* update_glsl's local max_distance, in tenths
    idx,            \* number of stars the for loop has processed
    resetIn         \* history: resetIn[i] iff star i's latest test reset it

vars == <<stars, vertices, indices, canvas, pc, nap, x0, y0, max_distance,
          idx, resetIn>>

---------------------------------------------------------------------------
\* math.cos and math.sin of an angle given in quarter turns.
Cos(a) == CASE a % 4 = 0 -> 1 [] a % 4 = 1 -> 0 [] a % 4 = 2 -> -1 [] OTHER -> 0

Sin(a) == CASE a % 4 = 0 -> 0 [] a % 4 = 1 -> 1 [] a % 4 = 2 -> 0 [] OTHER -> -1

Max(a, b) == IF a >= b THEN a ELSE b

Min(a, b) == IF a <= b THEN a ELSE b

\* Starfield.vfmt: the attributes of one vertex and their lengths.
vfmt == << [name |-> "vCenter", n |-> 2], [name |-> "vScale", n |-> 1],
           [name |-> "vPosition", n |-> 2], [name |-> "vTexCoords0", n |-> 2] >>

RECURSIVE SumN(_)
SumN(s) == IF s = <<>> THEN 0 ELSE Head(s).n + SumN(Tail(s))

\* Starfield.vsize: the length of a single vertex in the array of vertices.
vsize == SumN(vfmt)

\* QuadIndices with the two plain triangles (0,1,2) and (2,3,0) padded at the end.
QuadIndicesPadded(i) == <<i, i + 1, i + 2, i + 2, i + 3, i, i>>

\* The 7 indices the constructor appends for the quad whose first vertex is i.
QuadIndices(i) == <<i, i + 1, i + 2, i + 2, i + 2, i + 3, i>>

\* The constructor's loop "for i in range(0, 4 * NSTARS, 4)", its first n turns.
RECURSIVE BuildIndices(_)
BuildIndices(n) ==
    IF n = 0 THEN <<>> ELSE BuildIndices(n - 1) \o QuadIndices(4 * (n - 1))

\* The 28 scalars the constructor appends for one star.
QuadVertices ==
    << 0, 0, 1000, -24, -24, 0, 1,
       0, 0, 1000, 24, -24, 1, 1,
       0, 0, 1000, 24, 24, 1, 0,
       0, 0, 1000, -24, 24, 0, 0 >>

\* The constructor's loop "for i in range(NSTARS)", its first n turns.
RECURSIVE BuildVertices(_)
BuildVertices(n) ==
    IF n = 0 THEN <<>> ELSE BuildVertices(n - 1) \o QuadVertices

\* Star.reset drawing the distance as 100 * random() + 10.
ResetWide(star, ra, rd, rs) ==
    [star EXCEPT !.angle = ra,
                 !.distance = 10 * rd + 10,
                 !.size = 5 * rs + 50]

\* Star.reset with the three values of random() it draws.
Reset(star, ra, rd, rs) ==
    [star EXCEPT !.angle = ra,
                 !.distance = 9 * rd + 10,
                 !.size = 5 * rs + 50]

\* Star.__init__ for index i (0-based), followed by the reset it calls.
NewStar(i, ra, rd, rs) ==
    Reset([angle |-> 0, distance |-> 0, size |-> 100, base_idx |-> 4 * i * vsize],
          ra, rd, rs)

\* Star.iterate stepping by the 6 scalars of a vertex without its scale.
IterateShortStride(star) == [k \in 1..4 |-> star.base_idx + (k - 1) * (vsize - 1)]

\* Star.iterate: range(base_idx, base_idx + 4 * vsize, vsize), as a sequence.
Iterate(star) == [k \in 1..4 |-> star.base_idx + (k - 1) * vsize]

\* The slice written as v[i:i + 2] = t: three scalars replace two.
SliceAssignTwo(v, i, t) ==
    LET lo == Min(i, Len(v))
        hi == Min(i + 2, Len(v))
    IN  SubSeq(v, 1, lo) \o t \o SubSeq(v, hi + 1, Len(v))

\* Python's v[i:i + 3] = t on a list (slice bounds are clipped to the list).
SliceAssign(v, i, t) ==
    LET lo == Min(i, Len(v))
        hi == Min(i + 3, Len(v))
    IN  SubSeq(v, 1, lo) \o t \o SubSeq(v, hi + 1, Len(v))

\* The for loop of Star.update over the first k offsets of iterate().
RECURSIVE WriteSlots(_, _, _, _)
WriteSlots(v, offs, k, t) ==
    IF k = 0 THEN v ELSE SliceAssign(WriteSlots(v, offs, k - 1, t), offs[k], t)

\* Star.update with cos and sin exchanged.
StarUpdateSwapped(v, star, cx, cy) ==
    LET x == cx + star.distance * Sin(star.angle)
        y == cy + star.distance * Cos(star.angle)
    IN  WriteSlots(v, Iterate(star), 4, <<x, y, star.size>>)

\* Star.update refreshing only the first 3 of the star's 4 vertices.
StarUpdateThree(v, star, cx, cy) ==
    LET x == cx + star.distance * Cos(star.angle)
        y == cy + star.distance * Sin(star.angle)
    IN  WriteSlots(v, Iterate(star), 3, <<x, y, star.size>>)

\* Star.update(x0, y0): the vertices array after the call.
StarUpdate(v, star, cx, cy) ==
    LET x == cx + star.distance * Cos(star.angle)
        y == cy + star.distance * Sin(star.angle)
    IN  WriteSlots(v, Iterate(star), 4, <<x, y, star.size>>)

\* The growth with "star.distance = 2 * nap + 1" for "*=".
GrowAssign(star, dt) ==
    [star EXCEPT !.distance = 2 * dt + 1,
                 !.size = star.size + 250 * dt]

\* The growth with the size enlarged by 0.025 * nap.
GrowSmallSize(star, dt) ==
    [star EXCEPT !.distance = star.distance * (2 * dt + 1),
                 !.size = star.size + 25 * dt]

\* The growth statements of the loop body.
Grow(star, dt) ==
    [star EXCEPT !.distance = star.distance * (2 * dt + 1),
                 !.size = star.size + 250 * dt]

\* max_distance = 1.1 * max(x0, y0), in tenths.
MaxDistance(cx, cy) == 11 * Max(cx, cy)

\* The test "star.distance > max_distance" (max_distance is in tenths).
Exceeds(star, md) == 10 * star.distance > md

\* update_glsl without its canvas.clear().
ClearNothing(c) == c

\* canvas.clear()
Clear(c) == <<>>

\* The Mesh instruction update_glsl adds to the canvas.
Mesh(v, ind) == [fmt |-> vfmt, mode |-> "triangles", indices |-> ind, vertices |-> v]

---------------------------------------------------------------------------
\* Starfield.__init__
Init ==
    /\ \E ra \in [1..NSTARS -> AngleDraws], rd \in [1..NSTARS -> DistanceDraws],
          rs \in [1..NSTARS -> SizeDraws] :
          stars = [i \in 1..NSTARS |-> NewStar(i - 1, ra[i], rd[i], rs[i])]
    /\ indices = BuildIndices(NSTARS)
    /\ vertices = BuildVertices(NSTARS)
    /\ canvas = <<>>
    /\ pc = "idle"
    /\ nap = 0
    /\ x0 = 0
    /\ y0 = 0
    /\ max_distance = 0
    /\ idx = 0
    /\ resetIn = [i \in 1..NSTARS |-> FALSE]

\* The loop control stopping one star short of the last.
AfterStarShort(n) == IF n >= NSTARS - 1 THEN "draw" ELSE "grow"

\* The position after star number n of the loop has been processed.
AfterStar(n) == IF n >= NSTARS THEN "draw" ELSE "grow"

\* The Clock calls update_glsl(nap): the center is read, max_distance computed.
UpdateBegin(N) ==
    /\ pc = "idle"
    /\ \E dt \in N, c \in Centers :
          /\ nap' = dt
          /\ x0' = c[1]
          /\ y0' = c[2]
          /\ max_distance' = MaxDistance(c[1], c[2])
    /\ idx' = 0
    /\ pc' = AfterStar(0)
    /\ UNCHANGED <<stars, vertices, indices, canvas, resetIn>>

\* star.distance *= 2 * nap + 1; star.size += 0.25 * nap
GrowStar ==
    /\ pc = "grow"
    /\ stars' = [stars EXCEPT ![idx + 1] = Grow(@, nap)]
    /\ pc' = "test"
    /\ UNCHANGED <<vertices, indices, canvas, nap, x0, y0, max_distance, idx, resetIn>>

\* The reset branch also refreshing the star's vertices (no one-frame lag).
TestResetWrites ==
    /\ pc = "test"
    /\ Exceeds(stars[idx + 1], max_distance)
    /\ \E ra \in AngleDraws, rd \in DistanceDraws, rs \in SizeDraws :
          /\ stars' = [stars EXCEPT ![idx + 1] = Reset(@, ra, rd, rs)]
          /\ vertices' = StarUpdate(vertices, Reset(stars[idx + 1], ra, rd, rs), x0, y0)
    /\ resetIn' = [resetIn EXCEPT ![idx + 1] = TRUE]
    /\ idx' = idx + 1
    /\ pc' = AfterStar(idx + 1)
    /\ UNCHANGED <<indices, canvas, nap, x0, y0, max_distance>>

\* if star.distance > max_distance: star.reset()
TestReset ==
    /\ pc = "test"
    /\ Exceeds(stars[idx + 1], max_distance)
    /\ \E ra \in AngleDraws, rd \in DistanceDraws, rs \in SizeDraws :
          stars' = [stars EXCEPT ![idx + 1] = Reset(@, ra, rd, rs)]
    /\ resetIn' = [resetIn EXCEPT ![idx + 1] = TRUE]
    /\ idx' = idx + 1
    /\ pc' = AfterStar(idx + 1)
    /\ UNCHANGED <<vertices, indices, canvas, nap, x0, y0, max_distance>>

\* else: star.update(x0, y0)
TestUpdate ==
    /\ pc = "test"
    /\ ~Exceeds(stars[idx + 1], max_distance)
    /\ vertices' = StarUpdate(vertices, stars[idx + 1], x0, y0)
    /\ resetIn' = [resetIn EXCEPT ![idx + 1] = FALSE]
    /\ idx' = idx + 1
    /\ pc' = AfterStar(idx + 1)
    /\ UNCHANGED <<stars, indices, canvas, nap, x0, y0, max_distance>>

\* self.canvas.clear(); with self.canvas: Mesh(...); then update_glsl returns.
Draw ==
    /\ pc = "draw"
    /\ canvas' = Append(Clear(canvas), Mesh(vertices, indices))
    /\ pc' = "idle"
    /\ nap' = 0
    /\ x0' = 0
    /\ y0' = 0
    /\ max_distance' = 0
    /\ idx' = 0
    /\ UNCHANGED <<stars, vertices, indices, resetIn>>

Tick == UpdateBegin(Naps)

Next == Tick \/ GrowStar \/ TestReset \/ TestUpdate \/ Draw

Spec == Init /\ [][Next]_vars

\* The Clock of on_start keeps calling update_glsl, every nap positive.
TickLive == UpdateBegin(Naps \ {0})

NextLive == TickLive \/ GrowStar \/ TestReset \/ TestUpdate \/ Draw

LiveSpec == Init /\ [][NextLive]_vars /\ WF_vars(NextLive)

---------------------------------------------------------------------------
(* Reading the vertex array: star i (1-based) owns the 28 scalars after   *)
(* position 28 * (i - 1); its vertex k (1..4) owns 7 of them, the dynamic *)
(* triple first, then the 4 static scalars.                               *)

DynAt(v, i, k) ==
    LET o == 28 * (i - 1) + 7 * (k - 1) IN <<v[o + 1], v[o + 2], v[o + 3]>>

StaticAt(v, i, k) ==
    LET o == 28 * (i - 1) + 7 * (k - 1) IN <<v[o + 4], v[o + 5], v[o + 6], v[o + 7]>>

QuadAt(v, i) == SubSeq(v, 28 * (i - 1) + 1, 28 * i)

\* The construction-time static scalars of the 4 corners.
Corners == << <<-24, -24, 0, 1>>, <<24, -24, 1, 1>>, <<24, 24, 1, 0>>, <<-24, 24, 0, 0>> >>

\* (center-x, center-y, scale) of a star seen from the origin (cx, cy).
Projected(cx, cy, star) ==
    << cx + star.distance * Cos(star.angle),
       cy + star.distance * Sin(star.angle),
       star.size >>

\* The vertex array as the constructor leaves it.
ConstructedVertices == BuildVertices(NSTARS)

\* The index array as the spec states it: 7 indices per quad, base 4*i.
StatedIndices ==
    [ j \in 1..(7 * NSTARS) |->
        4 * ((j - 1) \div 7) + <<0, 1, 2, 2, 2, 3, 0>>[((j - 1) % 7) + 1] ]

\* The vertex array as the previous frame left it: the Mesh on the canvas,
\* or the construction-time array before the first frame is drawn.
PriorFrame == IF canvas = <<>> THEN ConstructedVertices ELSE canvas[1].vertices

\* Some star has been written and another reset, in a finished frame.
MixedFrameDone ==
    /\ pc = "idle"
    /\ canvas # <<>>
    /\ \E i, j \in 1..NSTARS :
          /\ resetIn[i]
          /\ ~resetIn[j]
          /\ DynAt(vertices, j, 1) # <<0, 0, 1000>>

\* C1. Static-attribute immutability: in every state (after construction and
\* after any number of updates, whatever nap, center and mix of reset and
\* written stars) the 4 static scalars at offsets 3..6 of every vertex are
\* the construction-time ones: (-24,-24,0,1), (24,-24,1,1), (24,24,1,0),
\* (-24,24,0,0) per star.
C1_StaticImmutable ==
    \A i \in 1..NSTARS : \A k \in 1..4 : StaticAt(vertices, i, k) = Corners[k]

C1_Witness ==
    /\ MixedFrameDone
    /\ \A i \in 1..NSTARS : \A k \in 1..4 : StaticAt(vertices, i, k) = Corners[k]

\* C2. Reset boundary: at the test of a star whose grown distance is
\* strictly greater than max_distance the star is reset, its distance
\* re-drawn into [10,100), its size into [0.05,0.10), its angle into
\* [0,2*pi), and the vertex array is left as it is; and the 28 scalars of a
\* star change in no step of a call but the test of that very star when its
\* distance does not exceed max_distance.  So the slots of a star that is
\* reset in a call keep the prior frame's values through the call.
C2_ResetBoundary ==
    [][ /\ (pc = "test" /\ 10 * stars[idx + 1].distance > max_distance)
            => /\ stars'[idx + 1].distance \in 10..99
               /\ stars'[idx + 1].size \in 50..99
               /\ stars'[idx + 1].angle \in 0..3
               /\ resetIn'[idx + 1]
               /\ vertices' = vertices
        /\ \A i \in 1..NSTARS :
              QuadAt(vertices', i) # QuadAt(vertices, i)
                 => /\ pc = "test"
                    /\ idx + 1 = i
                    /\ 10 * stars[i].distance <= max_distance ]_vars

\* A later frame has reset a star that an earlier frame had written: its
\* slots still hold what the Mesh of the earlier frame holds.
C2_Witness ==
    /\ pc = "draw"
    /\ canvas # <<>>
    /\ \E i \in 1..NSTARS :
          /\ resetIn[i]
          /\ stars[i].distance \in 10..99
          /\ DynAt(vertices, i, 1) # <<0, 0, 1000>>
          /\ QuadAt(vertices, i) = QuadAt(canvas[1].vertices, i)

\* C3. Non-reset write: within a call, every star already processed in it
\* whose grown distance did not exceed max_distance has, at all 4 of its
\* vertices, the dynamic triple (x0 + d*cos(angle), y0 + d*sin(angle), size)
\* of its grown distance and size and of the origin sampled in that call;
\* this still holds when the loop is over and the Mesh is about to be drawn.
C3_NonResetWrite ==
    pc # "idle" =>
        \A i \in 1..idx :
            ~resetIn[i] =>
                /\ 10 * stars[i].distance <= max_distance
                /\ \A k \in 1..4 :
                      DynAt(vertices, i, k) =
                         << x0 + stars[i].distance * Cos(stars[i].angle),
                            y0 + stars[i].distance * Sin(stars[i].angle),
                            stars[i].size >>

\* Origin (50,50), angle pi/2, distance 55, size 0.075, nap 0: (50, 105, 0.075)
\* at all 4 slots of the first star.
C3_Witness ==
    /\ pc = "draw"
    /\ nap = 0
    /\ x0 = 50
    /\ y0 = 50
    /\ ~resetIn[1]
    /\ stars[1].angle = 1
    /\ stars[1].distance = 55
    /\ 10 * stars[1].distance = max_distance
    /\ \A k \in 1..4 : DynAt(vertices, 1, k) = <<50, 105, 75>>

\* C4. Index topology: in every state the index array is the concatenation,
\* for i = 0..NSTARS-1 with base = 4*i, of (base, base+1, base+2, base+2,
\* base+2, base+3, base); every value is in [0, 4*NSTARS); for 2 stars it is
\* [0,1,2,2,2,3,0, 4,5,6,6,6,7,4]; and the Mesh on the canvas carries it.
C4_IndexTopology ==
    /\ indices = StatedIndices
    /\ \A j \in 1..Len(indices) : indices[j] \in 0..(4 * NSTARS - 1)
    /\ (NSTARS = 2 => indices = <<0, 1, 2, 2, 2, 3, 0, 4, 5, 6, 6, 6, 7, 4>>)
    /\ \A m \in 1..Len(canvas) : canvas[m].indices = indices

C4_Witness ==
    /\ MixedFrameDone
    /\ Len(indices) = 7 * NSTARS
    /\ indices[4] = 2
    /\ indices[7 * NSTARS] = 4 * (NSTARS - 1)

\* C5. Buffer sizes: in every state, with stride 7, the vertex array holds
\* 4*NSTARS*7 scalars and the index array 7*NSTARS indices; the slice write
\* of the 3 dynamic scalars neither grows nor shrinks the array.
C5_BufferSizes ==
    /\ vsize = 7
    /\ Len(vertices) = 4 * NSTARS * 7
    /\ Len(indices) = 7 * NSTARS

\* Every star has been written at least once.
C5_Witness ==
    /\ pc = "idle"
    /\ Len(vertices) = 28 * NSTARS
    /\ \A i \in 1..NSTARS : DynAt(vertices, i, 4) # <<0, 0, 1000>>

\* C6. Growth law: the growth step takes the current star from (D0, S0) to
\* distance D0*(2*nap+1) and size S0 + 0.25*nap before the reset test, and
\* leaves it as it is when nap = 0; the test of a star that is not reset
\* leaves the star with these values; no step changes any other star than
\* the one the loop is at.
C6_GrowthLaw ==
    [][ /\ pc = "grow"
            => /\ pc' = "test"
               /\ stars'[idx + 1].distance = stars[idx + 1].distance * (2 * nap + 1)
               /\ stars'[idx + 1].size = stars[idx + 1].size + 250 * nap
               /\ stars'[idx + 1].angle = stars[idx + 1].angle
               /\ (nap = 0 => stars' = stars)
        /\ (pc = "test" /\ 10 * stars[idx + 1].distance <= max_distance)
            => stars' = stars
        /\ \A i \in 1..NSTARS :
              stars'[i] # stars[i] => (pc \in {"grow", "test"} /\ idx + 1 = i) ]_vars

\* A star drawn at distance 55 and size 0.075 has grown, with nap = 1, to
\* distance 165 and size 0.325, and was not reset.
C6_Witness ==
    /\ pc = "draw"
    /\ nap = 1
    /\ \E i \in 1..NSTARS :
          /\ ~resetIn[i]
          /\ stars[i].distance = 165
          /\ stars[i].size = 325

\* C7 as claimed: a star reset in one call has its 4 vertex slots rewritten,
\* in the very next call, with the center and scale of its new state.
C7_RewrittenInNextCall ==
    [][ (pc = "test" /\ resetIn[idx + 1])
            => \A k \in 1..4 :
                  DynAt(vertices', idx + 1, k) = Projected(x0, y0, stars[idx + 1]) ]_vars

\* C7 amended: a star reset in a call keeps, through that call, the values
\* its slots had in the prior frame; in the next call its slots are
\* rewritten with the center and scale of its grown state if its grown
\* distance does not exceed that call's max_distance, and otherwise it is
\* reset again and its slots stay as they are.
C7_FrozenUntilNextWrite ==
    /\ [](pc # "idle" =>
            \A i \in 1..idx : resetIn[i] => QuadAt(vertices, i) = QuadAt(PriorFrame, i))
    /\ [][ /\ (pc = "test" /\ resetIn[idx + 1]
                  /\ 10 * stars[idx + 1].distance <= max_distance)
              => /\ ~resetIn'[idx + 1]
                 /\ \A k \in 1..4 :
                       DynAt(vertices', idx + 1, k) = Projected(x0, y0, stars[idx + 1])
           /\ (pc = "test" /\ resetIn[idx + 1]
                  /\ 10 * stars[idx + 1].distance > max_distance)
              => /\ resetIn'[idx + 1]
                 /\ vertices' = vertices ]_vars

\* A star reset in the previous call, grown in this one, is at the test
\* with a distance within max_distance while its slots still show the
\* position an earlier frame wrote and the Mesh on the canvas shows.
C7_Witness ==
    /\ pc = "test"
    /\ canvas # <<>>
    /\ resetIn[idx + 1]
    /\ nap = 1
    /\ 10 * stars[idx + 1].distance <= max_distance
    /\ DynAt(vertices, idx + 1, 1) # <<0, 0, 1000>>
    /\ DynAt(vertices, idx + 1, 1) # Projected(x0, y0, stars[idx + 1])
    /\ QuadAt(vertices, idx + 1) = QuadAt(canvas[1].vertices, idx + 1)

\* C8. Per-quad consistency: in every state the 4 vertices of every star
\* hold the same dynamic triple (center-x, center-y, scale); before the
\* first call all of them are (0, 0, 1).
C8_QuadConsistent ==
    /\ \A i \in 1..NSTARS : \A k \in 2..4 :
          DynAt(vertices, i, k) = DynAt(vertices, i, 1)
    /\ (canvas = <<>> /\ pc = "idle")
          => \A i \in 1..NSTARS : \A k \in 1..4 : DynAt(vertices, i, k) = <<0, 0, 1000>>

\* Two stars written in the same frame at different centers.
C8_Witness ==
    /\ pc = "idle"
    /\ canvas # <<>>
    /\ \E i, j \in 1..NSTARS :
          /\ DynAt(vertices, i, 4) # <<0, 0, 1000>>
          /\ DynAt(vertices, j, 4) # <<0, 0, 1000>>
          /\ DynAt(vertices, i, 4) # DynAt(vertices, j, 4)
          /\ DynAt(vertices, i, 1) = DynAt(vertices, i, 4)

\* C9. Draw ordering: the loop processes the stars in index order; the
\* canvas changes only in the draw step, which is taken once all NSTARS
\* stars have been processed and ends the call; every draw step leaves on
\* the canvas exactly one Mesh, holding the vertex array of that moment; so
\* the canvas never holds more than one Mesh, and between calls its Mesh
\* holds the current vertex and index arrays.
C9_DrawOrdering ==
    /\ [](/\ Len(canvas) <= 1
          /\ (pc = "draw" => idx = NSTARS)
          /\ (pc \in {"grow", "test"} => idx < NSTARS)
          /\ (pc = "idle" /\ canvas # <<>>)
                => /\ canvas[1].vertices = vertices
                   /\ canvas[1].indices = indices)
    /\ [][ /\ canvas' # canvas => (pc = "draw" /\ idx = NSTARS)
           /\ pc = "draw"
                 => /\ pc' = "idle"
                    /\ Len(canvas') = 1
                    /\ canvas'[1].vertices = vertices
                    /\ vertices' = vertices
           /\ idx' # idx => (idx' = idx + 1 \/ pc = "draw") ]_vars

\* A second frame has been drawn, after a frame that changed the array.
C9_Witness ==
    /\ pc = "idle"
    /\ Len(canvas) = 1
    /\ canvas[1].vertices = vertices
    /\ \E i, j \in 1..NSTARS :
          /\ resetIn[i]
          /\ DynAt(vertices, i, 1) # <<0, 0, 1000>>
          /\ ~resetIn[j]

\* C10. Recycling liveness: while the Clock keeps calling update_glsl with
\* positive naps and the center stays bounded, every star is, again and
\* again, at the reset test with a distance greater than max_distance.
C10_Recycling ==
    \A i \in 1..NSTARS :
        []<>(pc = "test" /\ idx + 1 = i /\ 10 * stars[i].distance > max_distance)

\* A star that had been written (so was within max_distance) has grown
\* past max_distance and is about to be reset.
C10_Witness ==
    /\ pc = "test"
    /\ nap > 0
    /\ ~resetIn[idx + 1]
    /\ DynAt(vertices, idx + 1, 1) # <<0, 0, 1000>>
    /\ 10 * stars[idx + 1].distance > max_distance

====
